---- MODULE Spec2Model ----
(***************************************************************************)
(* WinMole: the whitelist store (pkg/whitelist/whitelist.go), the path     *)
(* safety validator and the deletion engine (internal/core/fileops.go).    *)
(*                                                                         *)
(* A Go string is a sequence of one-character strings, so that trimming,   *)
(* case folding, line splitting, cleaning and glob matching are computed   *)
(* character by character as the library functions compute them.  The      *)
(* characters are ASCII; the path separator is the Windows one.            *)
(***************************************************************************)
EXTENDS Integers, Sequences, FiniteSets, TLC

VARIABLES
    patterns,   \* Whitelist.patterns                      (whitelist.go:23)
    file,       \* content of the file at Whitelist.path   (whitelist.go:24)
    last,       \* the last whitelist call: operation, argument, results
    chain,      \* history: progress of an Add(p); Remove; Remove sequence
    fs,         \* the filesystem entries the deletion engine works on
    sd,         \* the SafeDelete call in progress or last returned
    cd,         \* the SafeCleanDir call in progress or last returned
    mu,         \* Whitelist.mu: the holders of the lock   (whitelist.go:25)
    calls,      \* the whitelist call each concurrent caller is in
    heap,       \* the backing arrays of the slices below
    slice,      \* Whitelist.patterns as a Go slice: its array and length
    listed      \* the slice a caller holds from List, and what it expects

lockVars == <<mu, calls>>
sliceVars == <<heap, slice, listed>>
vars == <<patterns, file, last, chain, fs, sd, cd, mu, calls, heap, slice,
          listed>>

(***************************************************************************)
(* Bounds of the model.                                                    *)
(***************************************************************************)
MaxPatterns == 2    \* longest pattern list Add builds or Init starts from
MaxCleanCalls == 1  \* SafeCleanDir calls in one behaviour
NumCallers == 2     \* goroutines that call one Whitelist concurrently

(***************************************************************************)
(* Characters.                                                             *)
(***************************************************************************)
Sep == "\\"         \* os.PathSeparator on Windows

UpperCase == <<"A","B","C","D","E","F","G","H","I","J","K","L","M",
               "N","O","P","Q","R","S","T","U","V","W","X","Y","Z">>
LowerCase == <<"a","b","c","d","e","f","g","h","i","j","k","l","m",
               "n","o","p","q","r","s","t","u","v","w","x","y","z">>
Digits == {"0","1","2","3","4","5","6","7","8","9"}

UpperSet == {UpperCase[i] : i \in 1..26}
LowerSet == {LowerCase[i] : i \in 1..26}
IsUpper(c) == c \in UpperSet
IsLower(c) == c \in LowerSet

\* unicode.ToLower on one ASCII character
LowerOf ==
    [c \in UpperSet |->
        LowerCase[CHOOSE i \in 1..26 : UpperCase[i] = c]]
ToLowerChar(c) == IF c \in DOMAIN LowerOf THEN LowerOf[c] ELSE c

\* strings.ToLower
ToLower(s) == [i \in 1..Len(s) |-> ToLowerChar(s[i])]

\* strings.EqualFold: equal under simple case folding, same length
EqualFoldStrict(s, t) == s = t
EqualFold(s, t) ==
    /\ Len(s) = Len(t)
    /\ \A i \in 1..Len(s) : ToLowerChar(s[i]) = ToLowerChar(t[i])

\* "equal ignoring letter case", as the properties below state it
SameIgnoringCase(s, t) == ToLower(s) = ToLower(t)

\* unicode.IsSpace on the ASCII range
IsSpace(c) == c \in {" ", "\t", "\n", "\r", "\f"}

\* strings.TrimSpace: drops leading and trailing white space only
RECURSIVE TrimLeft(_)
TrimLeft(s) ==
    IF s # <<>> /\ IsSpace(Head(s)) THEN TrimLeft(Tail(s)) ELSE s

RECURSIVE TrimRight(_)
TrimRight(s) ==
    IF s # <<>> /\ IsSpace(s[Len(s)])
    THEN TrimRight(SubSeq(s, 1, Len(s) - 1)) ELSE s

TrimSpace(s) == TrimRight(TrimLeft(s))

\* strings.HasPrefix
HasPrefix(s, p) == Len(p) <= Len(s) /\ SubSeq(s, 1, Len(p)) = p

\* strings.ContainsAny
ContainsAny(s, cs) == \E i \in 1..Len(s) : s[i] \in cs

\* concatenation of a sequence of strings
RECURSIVE Concat(_)
Concat(ss) == IF ss = <<>> THEN <<>> ELSE Head(ss) \o Concat(Tail(ss))

(***************************************************************************)
(* path/filepath on Windows.                                               *)
(***************************************************************************)
IsPathSeparator(c) == c \in {"\\", "/"}

\* volumeNameLen: a drive letter and a colon (UNC and device paths are not
\* among the paths of this model)
VolumeNameLen(p) ==
    IF Len(p) >= 2 /\ p[2] = ":" /\ (IsUpper(p[1]) \/ IsLower(p[1]))
    THEN 2 ELSE 0

\* the elements of s between separators, empty ones included
FirstSeparator(s) ==
    LET at == {i \in 1..Len(s) : IsPathSeparator(s[i])}
    IN  IF at = {} THEN 0 ELSE CHOOSE i \in at : \A j \in at : i <= j

RECURSIVE SplitElems(_)
SplitElems(s) ==
    LET n == FirstSeparator(s)
    IN  IF n = 0 THEN <<s>>
        ELSE <<SubSeq(s, 1, n - 1)>> \o SplitElems(SubSeq(s, n + 1, Len(s)))

\* the loop of filepath.Clean over the elements: "" and "." are dropped, ".."
\* removes the element before it, and is kept in front of a relative path
RECURSIVE CleanElems(_, _, _)
CleanElems(elems, stack, rooted) ==
    IF elems = <<>> THEN stack
    ELSE LET e == Head(elems)
             rest == Tail(elems)
         IN  IF e = <<>> \/ e = <<".">>
             THEN CleanElems(rest, stack, rooted)
             ELSE IF e = <<".", ".">>
             THEN IF stack # <<>> /\ stack[Len(stack)] # <<".", ".">>
                  THEN CleanElems(rest, SubSeq(stack, 1, Len(stack) - 1), rooted)
                  ELSE IF ~rooted
                       THEN CleanElems(rest, Append(stack, e), rooted)
                       ELSE CleanElems(rest, stack, rooted)
             ELSE CleanElems(rest, Append(stack, e), rooted)

RECURSIVE JoinSep(_)
JoinSep(elems) ==
    IF elems = <<>> THEN <<>>
    ELSE IF Len(elems) = 1 THEN Head(elems)
    ELSE Head(elems) \o <<Sep>> \o JoinSep(Tail(elems))

\* filepath.Clean
Clean(path) ==
    LET volLen == VolumeNameLen(path)
        vol    == SubSeq(path, 1, volLen)
        rest   == SubSeq(path, volLen + 1, Len(path))
    IN  IF rest = <<>> THEN path \o <<".">>
        ELSE LET rooted == IsPathSeparator(rest[1])
                 body   == JoinSep(CleanElems(SplitElems(rest), <<>>, rooted))
                 out    == (IF rooted THEN <<Sep>> ELSE <<>>) \o body
             IN  vol \o (IF out = <<>> THEN <<".">> ELSE out)

\* filepath.Match on Windows (no escape character): '*' matches any run of
\* non-separator characters, '?' one non-separator character, '[...]' one
\* character of the class ('^' negates it; ranges lo-hi are not modelled, no
\* pattern of the model holds '-').  A malformed class is ErrBadPattern, which
\* IsWhitelisted treats as no match and SafeCleanDir returns as an error.
ClassEnd(pat, from) ==
    LET ends == {i \in (from + 1)..Len(pat) : pat[i] = "]"}
    IN  IF ends = {} THEN 0 ELSE CHOOSE x \in ends : \A j \in ends : x <= j

RECURSIVE MatchAcrossSeparators(_, _)
MatchAcrossSeparators(pat, name) ==
    IF pat = <<>> THEN name = <<>>
    ELSE IF Head(pat) = "*"
    THEN \E k \in 0..Len(name) :
            MatchAcrossSeparators(Tail(pat), SubSeq(name, k + 1, Len(name)))
    ELSE /\ name # <<>>
         /\ Head(name) = Head(pat)
         /\ MatchAcrossSeparators(Tail(pat), Tail(name))

RECURSIVE Match(_, _)
Match(pat, name) ==
    IF pat = <<>> THEN name = <<>>
    ELSE IF Head(pat) = "*"
    THEN \E k \in 0..Len(name) :
            /\ \A i \in 1..k : name[i] # Sep
            /\ Match(Tail(pat), SubSeq(name, k + 1, Len(name)))
    ELSE IF Head(pat) = "?"
    THEN /\ name # <<>>
         /\ Head(name) # Sep
         /\ Match(Tail(pat), Tail(name))
    ELSE IF Head(pat) = "["
    THEN LET negated == Len(pat) >= 2 /\ pat[2] = "^"
             first   == IF negated THEN 3 ELSE 2
             close   == ClassEnd(pat, first)
         IN  /\ close # 0
             /\ name # <<>>
             /\ LET member == \E i \in first..(close - 1) : pat[i] = Head(name)
                IN  member # negated
             /\ Match(SubSeq(pat, close + 1, Len(pat)), Tail(name))
    ELSE /\ name # <<>>
         /\ Head(name) = Head(pat)
         /\ Match(Tail(pat), Tail(name))

(***************************************************************************)
(* os.ExpandEnv: $NAME and ${NAME} are replaced by the variable's value,   *)
(* an unset variable by the empty string.  %NAME% is not a reference.      *)
(***************************************************************************)
\* the process environment: one variable, V (names are case-insensitive on
\* Windows)
EnvDir == <<"C", ":", "\\", "u">>
Getenv(name) == IF ToLower(name) = <<"v">> THEN EnvDir ELSE <<>>

IsShellSpecialVar(c) == c \in {"*", "#", "$", "@", "!", "?", "-"} \cup Digits
IsAlphaNum(c) == c = "_" \/ c \in Digits \/ IsUpper(c) \/ IsLower(c)

RECURSIVE AlphaNumRun(_)
AlphaNumRun(s) ==
    IF s # <<>> /\ IsAlphaNum(Head(s)) THEN 1 + AlphaNumRun(Tail(s)) ELSE 0

\* getShellName: the name after a '$' and the number of characters it takes
GetShellName(s) ==
    IF s[1] = "{"
    THEN IF Len(s) > 2 /\ IsShellSpecialVar(s[2]) /\ s[3] = "}"
         THEN [name |-> <<s[2]>>, w |-> 3]
         ELSE LET ends == {i \in 2..Len(s) : s[i] = "}"}
              IN  IF ends = {} THEN [name |-> <<>>, w |-> 1]
                  ELSE LET e == CHOOSE x \in ends : \A j \in ends : x <= j
                       IN  IF e = 2 THEN [name |-> <<>>, w |-> 2]
                           ELSE [name |-> SubSeq(s, 2, e - 1), w |-> e]
    ELSE IF IsShellSpecialVar(s[1])
    THEN [name |-> <<s[1]>>, w |-> 1]
    ELSE LET n == AlphaNumRun(s)
         IN  [name |-> SubSeq(s, 1, n), w |-> n]

RECURSIVE ExpandEnv(_)
ExpandEnv(s) ==
    IF s = <<>> THEN <<>>
    ELSE IF Head(s) = "$" /\ Len(s) >= 2
    THEN LET g == GetShellName(Tail(s))
             after == SubSeq(s, g.w + 2, Len(s))
         IN  IF g.name = <<>> /\ g.w > 0 THEN ExpandEnv(after)
             ELSE IF g.name = <<>> THEN <<"$">> \o ExpandEnv(after)
             ELSE Getenv(g.name) \o ExpandEnv(after)
    ELSE <<Head(s)>> \o ExpandEnv(Tail(s))

(***************************************************************************)
(* The whitelist store: pkg/whitelist/whitelist.go.                        *)
(***************************************************************************)
\* defaultPatterns
DefaultCargo ==
    <<"%", "U", "S", "E", "R", "P", "R", "O", "F", "I", "L", "E", "%",
      "\\", ".", "c", "a", "r", "g", "o", "\\", "b", "i", "n", "\\", "*">>
DefaultJetBrains ==
    <<"%", "L", "O", "C", "A", "L", "A", "P", "P", "D", "A", "T", "A", "%",
      "\\", "J", "e", "t", "B", "r", "a", "i", "n", "s", "\\", "*">>
DefaultCode ==
    <<"%", "A", "P", "P", "D", "A", "T", "A", "%", "\\", "C", "o", "d",
      "e", "\\", "U", "s", "e", "r", "\\", "*">>
defaultPatterns == <<DefaultCargo, DefaultJetBrains, DefaultCode>>

\* The three comment lines and the blank line Save writes first.  The wording
\* of the comments is shortened to one letter each; each line still starts
\* with '#'.
FileHeader ==
    <<"#", " ", "W", "\n", "#", " ", "L", "\n", "#", " ", "E", "\n", "\n">>

\* the text Save builds in its strings.Builder
RECURSIVE PatternLines(_)
PatternLines(ps) ==
    IF ps = <<>> THEN <<>>
    ELSE Head(ps) \o <<"\n">> \o PatternLines(Tail(ps))

SerializeNoBreak(ps) == FileHeader \o Concat(ps)
Serialize(ps) == FileHeader \o PatternLines(ps)

\* bufio.ScanLines: the text between newlines, one trailing '\r' dropped, and
\* a last line without newline if it is not empty
DropCR(line) ==
    IF line # <<>> /\ line[Len(line)] = "\r"
    THEN SubSeq(line, 1, Len(line) - 1) ELSE line

FirstNewline(data) ==
    LET at == {i \in 1..Len(data) : data[i] = "\n"}
    IN  IF at = {} THEN 0 ELSE CHOOSE i \in at : \A j \in at : i <= j

RECURSIVE ScanLines(_)
ScanLines(data) ==
    IF data = <<>> THEN <<>>
    ELSE LET n == FirstNewline(data)
         IN  IF n = 0 THEN <<DropCR(data)>>
             ELSE <<DropCR(SubSeq(data, 1, n - 1))>>
                  \o ScanLines(SubSeq(data, n + 1, Len(data)))

\* the loop of Load over the scanned lines
RECURSIVE KeepLines(_)
KeepLines(lines) ==
    IF lines = <<>> THEN <<>>
    ELSE LET line == TrimSpace(Head(lines))
         IN  IF line = <<>> \/ HasPrefix(line, <<"#">>)
             THEN KeepLines(Tail(lines))
             ELSE <<line>> \o KeepLines(Tail(lines))

ParseFile(data) == KeepLines(ScanLines(data))

\* the first index whose pattern equals p under EqualFold, 0 if none
FirstMatch(ps, p) ==
    LET hits == {i \in 1..Len(ps) : EqualFold(ps[i], p)}
    IN  IF hits = {} THEN 0 ELSE CHOOSE i \in hits : \A j \in hits : i <= j

\* append(w.patterns[:i], w.patterns[i+1:]...)
RemoveAtFirst(ps, i) == Tail(ps)
RemoveAt(ps, i) == SubSeq(ps, 1, i - 1) \o SubSeq(ps, i + 1, Len(ps))

GlobChars == {"*", "?", "["}

\* the body of the loop of IsWhitelisted for one stored pattern
PatternCoversExact(pattern, cleaned) ==
    LET expanded == Clean(ExpandEnv(pattern))
    IN  \/ cleaned = expanded
        \/ Match(expanded, cleaned)
        \/ /\ ~ContainsAny(expanded, GlobChars)
           /\ HasPrefix(cleaned \o <<Sep>>, expanded \o <<Sep>>)
PatternCoversBarePrefix(pattern, cleaned) ==
    LET expanded == Clean(ExpandEnv(pattern))
    IN  \/ EqualFold(cleaned, expanded)
        \/ Match(ToLower(expanded), ToLower(cleaned))
        \/ /\ ~ContainsAny(expanded, GlobChars)
           /\ HasPrefix(ToLower(cleaned), ToLower(expanded))
PatternCovers(pattern, cleaned) ==
    LET expanded == Clean(ExpandEnv(pattern))
    IN  \/ EqualFold(cleaned, expanded)
        \/ Match(ToLower(expanded), ToLower(cleaned))
        \/ /\ ~ContainsAny(expanded, GlobChars)
           /\ HasPrefix(ToLower(cleaned) \o <<Sep>>, ToLower(expanded) \o <<Sep>>)

IsWhitelistedIn(ps, path) ==
    \E i \in 1..Len(ps) : PatternCovers(ps[i], Clean(path))

(***************************************************************************)
(* Inputs of the whitelist calls.                                          *)
(***************************************************************************)
\* C:\u\t\k, as in TestWhitelist_AddAndRemove with shorter names
PKeep ==
    <<"C", ":", "\\", "u", "\\", "t", "\\", "k">>
\* the same pattern in another letter case, with white space around it
PKeepPadded ==
    <<" ", "c", ":", "\\", "U", "\\", "T", "\\", "K", "\t">>
\* a pattern whose first character is the comment character of the file
PHash ==
    <<"#", "k", "\\", "t", "\\", "k">>
\* a pattern with an environment reference: $v\t\k
PDollar ==
    <<"$", "v", "\\", "t", "\\", "k">>
PEmpty == <<>>
PBlank == <<" ", "\t">>

AddInputs == {PKeep, PKeepPadded, PHash, PDollar, PEmpty, PBlank}

\* query paths: the stored spellings and their other letter cases
QKeepUpper ==
    <<"C", ":", "\\", "U", "\\", "T", "\\", "K">>
QKeepSub ==
    <<"c", ":", "\\", "u", "\\", "t", "\\", "k", "\\", "s">>
QHashUpper ==
    <<"#", "K", "\\", "T", "\\", "K">>
QDollarUpper ==
    <<"$", "V", "\\", "T", "\\", "K">>
QOther ==
    <<"C", ":", "\\", "u", "\\", "t", "\\", "o">>
QueryPaths == {PKeep, QKeepUpper, QKeepSub, PHash, QHashUpper, PDollar, QDollarUpper, QOther}

\* whitelist files found on disk at the start: none, or a hand-edited one with
\* a comment, CRLF line ends, a blank line and one pattern in two letter cases
EditedFile ==
    <<"#", " ", "c", "\r", "\n", "C", ":", "\\", "u", "\\", "t", "\\", "k",
      "\r", "\n", "\r", "\n", " ", " ", "c", ":", "\\", "U", "\\", "T",
      "\\", "K", " ", " ", "\n">>
NoFile == [exists |-> FALSE, data |-> <<>>]
FileOf(data) == [exists |-> TRUE, data |-> data]
InitialFiles == {NoFile, FileOf(EditedFile)}

\* what a read or a write of the file can do: succeed, fail leaving the file
\* as it was, or (a write) fail after the file was created or truncated
IOOutcomes == {"ok", "fail", "trunc"}

(***************************************************************************)
(* The calls of the whitelist store.                                       *)
(***************************************************************************)
Result(op, arg, io, err, hit, list) ==
    [n |-> 1 - last.n, op |-> op, arg |-> arg, io |-> io, err |-> err,
     hit |-> hit, list |-> list]

NoChain == [stage |-> 0, pat |-> <<>>, before |-> <<>>]

\* os.WriteFile after os.MkdirAll, as Save calls them
WriteFile(data, io) ==
    IF io = "ok" THEN FileOf(data)
    ELSE IF io = "trunc" THEN FileOf(<<>>)
    ELSE file

Load(io) ==
    /\ IF ~file.exists
       THEN \* os.IsNotExist: seed with defaults and persist
            /\ file' = WriteFile(Serialize(defaultPatterns), io)
            /\ IF io = "ok"
               THEN /\ patterns' = defaultPatterns
                    /\ last' = Result("Load", <<>>, io, "nil", FALSE, defaultPatterns)
               ELSE /\ patterns' = patterns
                    /\ last' = Result("Load", <<>>, io, "cannot save", FALSE, <<>>)
       ELSE IF io # "ok"
       THEN /\ file' = file
            /\ patterns' = patterns
            /\ last' = Result("Load", <<>>, io, "cannot read", FALSE, <<>>)
       ELSE /\ file' = file
            /\ patterns' = ParseFile(file.data)
            /\ last' = Result("Load", <<>>, io, "nil", FALSE,
                                 ParseFile(file.data))
    /\ chain' = NoChain
    /\ UNCHANGED <<fs, sd, cd, lockVars, sliceVars>>

Save(io) ==
    /\ file' = WriteFile(Serialize(patterns), io)
    /\ last' = Result("Save", <<>>, io,
                      IF io = "ok" THEN "nil" ELSE "cannot write", FALSE, <<>>)
    /\ chain' = NoChain
    /\ UNCHANGED <<patterns, fs, sd, cd, lockVars, sliceVars>>

Add(p) ==
    LET pattern == TrimSpace(p)
    IN  /\ IF pattern = <<>>
           THEN /\ patterns' = patterns
                /\ last' = Result("Add", p, "ok", "empty", FALSE, <<>>)
                /\ chain' = NoChain
           ELSE IF FirstMatch(patterns, pattern) # 0
           THEN /\ patterns' = patterns
                /\ last' = Result("Add", p, "ok", "exists", FALSE, <<>>)
                /\ chain' = NoChain
           ELSE /\ Len(patterns) < MaxPatterns
                /\ patterns' = Append(patterns, pattern)
                /\ last' = Result("Add", p, "ok", "nil", FALSE, <<>>)
                /\ chain' = [stage |-> 1, pat |-> p, before |-> patterns]
        /\ UNCHANGED <<file, fs, sd, cd, lockVars, sliceVars>>

Remove(p) ==
    LET pattern == TrimSpace(p)
        i == FirstMatch(patterns, pattern)
        follows == /\ chain.stage \in {1, 2}
                   /\ SameIgnoringCase(pattern, TrimSpace(chain.pat))
    IN  /\ IF pattern = <<>>
           THEN /\ patterns' = patterns
                /\ last' = Result("Remove", p, "ok", "empty", FALSE, <<>>)
           ELSE IF i # 0
           THEN /\ patterns' = RemoveAt(patterns, i)
                /\ last' = Result("Remove", p, "ok", "nil", FALSE, <<>>)
           ELSE /\ patterns' = patterns
                /\ last' = Result("Remove", p, "ok", "not found", FALSE, <<>>)
        /\ chain' = IF follows THEN [chain EXCEPT !.stage = chain.stage + 1]
                    ELSE NoChain
        /\ UNCHANGED <<file, fs, sd, cd, lockVars, sliceVars>>

IsWhitelisted(path) ==
    /\ last' = Result("IsWhitelisted", path, "ok", "nil",
                      IsWhitelistedIn(patterns, path), <<>>)
    /\ chain' = NoChain
    /\ UNCHANGED <<patterns, file, fs, sd, cd, lockVars, sliceVars>>

List ==
    /\ last' = Result("List", <<>>, "ok", "nil", FALSE, patterns)
    /\ chain' = NoChain
    /\ UNCHANGED <<patterns, file, fs, sd, cd, lockVars, sliceVars>>

(***************************************************************************)
(* The calls of the whitelist store by concurrent callers.  Each call is   *)
(* three steps: the part before the lock is requested, the acquisition of  *)
(* Whitelist.mu, and the body with the deferred release.                   *)
(***************************************************************************)
Callers == 1..NumCallers

\* sync.RWMutex: the caller that holds the write lock (0 for none) and the
\* callers that hold a read lock
Unlocked == [writer |-> 0, readers |-> {}]
NoOp == [pc |-> "idle", op |-> "none", arg |-> <<>>]

\* the lock each method takes: w.mu.Lock() or w.mu.RLock()
TakesLock(op) == op \in {"Add", "Remove"}
TakesRLock(op) == op \in {"Save", "IsWhitelisted", "List"}

\* a caller enters a method; Add and Remove return on an empty pattern
\* before they ask for the lock
Enter(t, op, arg) ==
    /\ calls[t].pc = "idle"
    /\ IF op \in {"Add", "Remove"} /\ TrimSpace(arg) = <<>>
       THEN /\ last' = Result(op, arg, "ok", "empty", FALSE, <<>>)
            /\ calls' = calls
       ELSE /\ calls' = [calls EXCEPT ![t] = [pc |-> "lock", op |-> op,
                                                arg |-> arg]]
            /\ last' = last
    /\ UNCHANGED <<patterns, file, chain, fs, sd, cd, mu, sliceVars>>

\* w.mu.Lock() or w.mu.RLock() returns
Acquire(t) ==
    /\ calls[t].pc = "lock"
    /\ IF TakesLock(calls[t].op)
       THEN /\ mu.writer = 0 /\ mu.readers = {}
            /\ mu' = [mu EXCEPT !.writer = t]
       ELSE /\ mu.writer = 0
            /\ mu' = [mu EXCEPT !.readers = @ \cup {t}]
    /\ calls' = [calls EXCEPT ![t].pc = "in"]
    /\ UNCHANGED <<patterns, file, last, chain, fs, sd, cd, sliceVars>>

\* the body of the method under the lock, and the deferred unlock
Finish(t, io) ==
    /\ calls[t].pc = "in"
    /\ LET op == calls[t].op
           pattern == TrimSpace(calls[t].arg)
           i == FirstMatch(patterns, pattern)
       IN  /\ patterns' =
                 IF op = "Add" /\ i = 0 THEN Append(patterns, pattern)
                 ELSE IF op = "Remove" /\ i # 0 THEN RemoveAt(patterns, i)
                 ELSE patterns
           /\ file' = IF op = "Save" THEN WriteFile(Serialize(patterns), io)
                      ELSE file
           /\ last' =
                 Result(op, calls[t].arg, io,
                        IF op = "Add" /\ i # 0 THEN "exists"
                        ELSE IF op = "Remove" /\ i = 0 THEN "not found"
                        ELSE IF op = "Save" /\ io # "ok" THEN "cannot write"
                        ELSE "nil",
                        op = "IsWhitelisted"
                            /\ IsWhitelistedIn(patterns, calls[t].arg),
                        IF op = "List" THEN patterns ELSE <<>>)
    /\ mu' = IF TakesLock(calls[t].op) THEN [mu EXCEPT !.writer = 0]
             ELSE [mu EXCEPT !.readers = @ \ {t}]
    /\ calls' = [calls EXCEPT ![t] = NoOp]
    /\ UNCHANGED <<chain, fs, sd, cd, sliceVars>>

(***************************************************************************)
(* Whitelist.patterns as the Go slice it is: a backing array with a        *)
(* capacity, of which the slice shows the first len cells.  append writes  *)
(* in place while the capacity allows; List returns a slice of its own.    *)
(***************************************************************************)
Arrays == {"x", "y", "z"}
NilSlice == [arr |-> "nil", len |-> 0]
NoneListed == [arr |-> "nil", len |-> 0, val |-> <<>>]

Cap(h, s) == IF s.arr = "nil" THEN 0 ELSE Len(h[s.arr])
View(h, s) == IF s.arr = "nil" THEN <<>> ELSE SubSeq(h[s.arr], 1, s.len)

\* an array no slice refers to
Fresh == CHOOSE a \in Arrays : a \notin {slice.arr, listed.arr}

\* the arrays no slice refers to any more are collected
Collected(h, s, l) ==
    [a \in Arrays |-> IF a \in {s.arr, l.arr} THEN h[a] ELSE <<>>]

\* growslice: the capacity of the array append allocates
NewCap(cap) == IF cap = 0 THEN 1 ELSE 2 * cap

\* append(w.patterns, pattern): the array cells and the slice afterwards
AppendTo(h, s, v) ==
    IF s.len < Cap(h, s)
    THEN [h |-> [h EXCEPT ![s.arr][s.len + 1] = v],
          s |-> [s EXCEPT !.len = @ + 1]]
    ELSE LET cells == [k \in 1..NewCap(Cap(h, s)) |->
                          IF k <= s.len THEN h[s.arr][k]
                          ELSE IF k = s.len + 1 THEN v ELSE <<>>]
         IN  [h |-> [h EXCEPT ![Fresh] = cells],
              s |-> [arr |-> Fresh, len |-> s.len + 1]]

\* append(w.patterns[:i], w.patterns[i+1:]...): the cells after i move one
\* place down in the same array; the last cell keeps its value
DeleteAt(h, s, i) ==
    [h |-> [h EXCEPT ![s.arr] =
                [k \in 1..Len(@) |-> IF k >= i /\ k < s.len THEN @[k + 1]
                                     ELSE @[k]]],
     s |-> [s EXCEPT !.len = @ - 1]]

AddSlice(p) ==
    LET pattern == TrimSpace(p)
        after == AppendTo(heap, slice, pattern)
    IN  /\ pattern # <<>>
        /\ FirstMatch(View(heap, slice), pattern) = 0
        /\ slice.len < MaxPatterns
        /\ slice' = after.s
        /\ heap' = Collected(after.h, after.s, listed)
        /\ patterns' = Append(patterns, pattern)
        /\ UNCHANGED <<file, last, chain, fs, sd, cd, lockVars, listed>>

RemoveSlice(p) ==
    LET pattern == TrimSpace(p)
        i == FirstMatch(View(heap, slice), pattern)
        after == DeleteAt(heap, slice, i)
    IN  /\ i # 0
        /\ slice' = after.s
        /\ heap' = after.h
        /\ patterns' = RemoveAt(patterns, i)
        /\ UNCHANGED <<file, last, chain, fs, sd, cd, lockVars, listed>>

\* result := make([]string, len(w.patterns)); copy(result, w.patterns)
ListResultShared(made) == slice.arr
ListResult(made) == made

ListSlice ==
    LET made == IF slice.len = 0 THEN "nil" ELSE Fresh
        copied == IF made = "nil" THEN heap
                  ELSE [heap EXCEPT ![made] = View(heap, slice)]
        result == [arr |-> ListResult(made), len |-> slice.len,
                   val |-> patterns]
    IN  /\ listed' = result
        /\ heap' = Collected(copied, slice, result)
        /\ UNCHANGED <<patterns, file, last, chain, fs, sd, cd, lockVars,
                       slice>>

\* the caller assigns to an element of the slice List returned
CallerWrites(j, v) ==
    /\ listed.arr # "nil"
    /\ j \in 1..listed.len
    /\ heap' = [heap EXCEPT ![listed.arr][j] = v]
    /\ listed' = [listed EXCEPT !.val[j] = v]
    /\ UNCHANGED <<patterns, file, last, chain, fs, sd, cd, lockVars, slice>>

(***************************************************************************)
(* The path safety validator.  ValidatePath and the never-delete list are  *)
(* not among the source files; they follow sections 4.3 and 6 of the       *)
(* specification and the list of TestGetNeverDeletePaths.                  *)
(***************************************************************************)
NDSystem32 ==
    <<"C", ":", "\\", "W", "i", "n", "d", "o", "w", "s", "\\", "S", "y",
      "s", "t", "e", "m", "3", "2">>
NDProgramData ==
    <<"C", ":", "\\", "P", "r", "o", "g", "r", "a", "m", "D", "a", "t", "a">>
NeverDeletePaths == <<NDSystem32, NDProgramData>>

\* "pattern + separator is a prefix of path + separator", on lower-cased text
UnderOrEqual(path, dir) == HasPrefix(path \o <<Sep>>, dir \o <<Sep>>)

NeverDeleteHitOneWay(cleaned, nd) == UnderOrEqual(cleaned, nd)
NeverDeleteHit(cleaned, nd) ==
    \/ cleaned = nd
    \/ UnderOrEqual(nd, cleaned)      \* the path is an ancestor of the entry
    \/ UnderOrEqual(cleaned, nd)      \* the path is the entry or under it

\* the entries as the validator compares them: cleaned and lower-cased
NeverDeleteCleaned ==
    [i \in 1..Len(NeverDeletePaths) |-> ToLower(Clean(NeverDeletePaths[i]))]

ValidatePath(ps, path) ==
    LET cleaned == ToLower(Clean(path))
    IN  IF \E i \in 1..Len(NeverDeletePaths) :
              NeverDeleteHit(cleaned, NeverDeleteCleaned[i])
        THEN "never delete"
        ELSE IF IsWhitelistedIn(ps, path) THEN "whitelisted"
        ELSE "ok"

(***************************************************************************)
(* The filesystem of the deletion engine.                                  *)
(***************************************************************************)
PFile ==
    <<"C", ":", "\\", "u", "\\", "t", "\\", "a">>
PDir ==
    <<"C", ":", "\\", "u", "\\", "t", "\\", "d">>
PDirChild ==
    <<"C", ":", "\\", "u", "\\", "t", "\\", "d", "\\", "f">>
PWindows ==
    <<"C", ":", "\\", "W", "i", "n", "d", "o", "w", "s">>

\* C:\u\t, the directory of PFile, PDir and PKeep
QParent ==
    <<"C", ":", "\\", "u", "\\", "t">>

FsPaths == {QParent, PFile, PDir, PDirChild, PKeep, PWindows, NDSystem32}

Absent == [kind |-> "none", size |-> 0, ro |-> FALSE]
FileEntry(size, ro) == [kind |-> "file", size |-> size, ro |-> ro]
DirEntry == [kind |-> "dir", size |-> 0, ro |-> FALSE]

InitialFs ==
    [p \in FsPaths |->
        IF p = PFile THEN FileEntry(5, TRUE)
        ELSE IF p = PDirChild THEN FileEntry(3, FALSE)
        ELSE IF p = PKeep THEN FileEntry(7, FALSE)
        ELSE DirEntry]

\* the entry a path names: names are case-insensitive and the path is
\* resolved as Clean resolves it
FsKeys(path) == LET cleaned == Clean(path)
                IN  {f \in FsPaths : EqualFold(f, cleaned)}
Lstat(path) ==
    IF FsKeys(path) = {} THEN Absent ELSE fs[CHOOSE f \in FsKeys(path) : TRUE]

\* the entries under a directory
Below(dir) ==
    LET cleaned == ToLower(Clean(dir))
    IN  {f \in FsPaths : ToLower(f) # cleaned /\ UnderOrEqual(ToLower(f), cleaned)}

RECURSIVE SumSizes(_)
SumSizes(S) ==
    IF S = {} THEN 0
    ELSE LET f == CHOOSE x \in S : TRUE
         IN  fs[f].size + SumSizes(S \ {f})

\* GetDirSize: the sizes of the files of the tree (every entry of the model
\* is readable, so none is skipped)
GetDirSize(path) == SumSizes({f \in Below(path) : fs[f].kind = "file"})

(***************************************************************************)
(* The deletion engine: internal/core/fileops.go.                          *)
(***************************************************************************)
maxRetries == 3
baseBackoff == 500      \* milliseconds

\* what os.Remove and os.RemoveAll can return: success, ERROR_SHARING_VIOLATION,
\* ERROR_LOCK_VIOLATION, ERROR_ACCESS_DENIED, any other error
RemoveOutcomes == {"ok", "sharing", "lock", "denied", "other"}

isRetryableErrorAny(e) == TRUE
isRetryableError(e) == e \in {"sharing", "lock"}
isAccessDenied(e) == e = "denied"

\* if err := ValidatePath(path); err != nil
ValidationIgnored(verr) == FALSE
ValidationFailed(verr) == verr # "ok"

\* if dryRun
DryRunIgnored(dryRun) == FALSE
DryRunReturns(dryRun) == dryRun

\* if os.IsNotExist(err), of the error of os.Lstat
NotExistIgnored(info) == FALSE
NotExist(info) == info.kind = "none"

Idle ==
    [pc |-> "idle", path |-> <<>>, dryRun |-> FALSE, verr |-> "ok",
     isDir |-> FALSE, size |-> 0, attempt |-> 0, bytes |-> 0, err |-> "nil",
     lastErr |-> "nil", removals |-> 0, chmods |-> 0, slept |-> <<>>,
     stated |-> 0, wraps |-> "nil"]

Returned(call, bytes, err) ==
    [call EXCEPT !.pc = "done", !.bytes = bytes, !.err = err]

\* SafeDelete up to the retry loop: validation, Lstat, the size, the dry run
SafeDeleteEntry(path, dryRun, statOk) ==
    LET verr == ValidatePath(patterns, path)
        info == Lstat(path)
        size == IF info.kind = "dir" THEN GetDirSize(path) ELSE info.size
        call == [Idle EXCEPT !.path = path, !.dryRun = dryRun, !.verr = verr]
    IN  IF ValidationFailed(verr)
        THEN Returned(call, 0, "safety check failed")
        ELSE IF NotExist(info)
        THEN Returned(call, 0, "nil")
        ELSE IF ~statOk
        THEN Returned(call, 0, "cannot stat")
        ELSE LET sized == [call EXCEPT !.isDir = info.kind = "dir",
                                       !.size = size]
             IN  IF DryRunReturns(dryRun)
                 THEN Returned(sized, size, "nil")
                 ELSE [sized EXCEPT !.pc = "remove"]

\* a call of SafeDelete by a caller other than SafeCleanDir
SafeDeleteCall(path, dryRun, statOk) ==
    /\ sd.pc \in {"idle", "done"}
    /\ cd.pc \in {"idle", "done"}
    /\ sd' = SafeDeleteEntry(path, dryRun, statOk)
    /\ UNCHANGED <<patterns, file, last, chain, fs, cd, lockVars, sliceVars>>

\* backoff := baseBackoff * time.Duration(1<<uint(attempt-1))
BackoffFlat(attempt) == baseBackoff
Backoff(attempt) == baseBackoff * 2^(attempt - 1)

\* time.Sleep(backoff) before a retry
SafeDeleteSleep ==
    /\ sd.pc = "sleep"
    /\ sd' = [sd EXCEPT !.pc = "remove",
                        !.slept = Append(@, Backoff(sd.attempt))]
    /\ UNCHANGED <<patterns, file, last, chain, fs, cd, lockVars, sliceVars>>

\* the filesystem after os.Remove or os.RemoveAll of the call's path: on
\* success the entry and everything under it are gone; a failed RemoveAll
\* may have removed any of the entries under the directory already
AfterRemove(path, outcome, gone) ==
    LET removed == IF outcome = "ok" THEN FsKeys(path) \cup Below(path)
                   ELSE gone
    IN  [f \in FsPaths |-> IF f \in removed THEN Absent ELSE fs[f]]

\* os.Chmod(path, 0o666): the read-only bit is cleared unless the call fails
AfterChmod(entries, path, chmodOk) ==
    LET changed == IF chmodOk THEN FsKeys(path) ELSE {}
    IN  [f \in FsPaths |->
            IF f \in changed /\ entries[f].kind # "none"
            THEN [entries[f] EXCEPT !.ro = FALSE]
            ELSE entries[f]]

\* attempt++ ; attempt < maxRetries
MoreAttemptsOneMore(attempt) == attempt + 1 < maxRetries + 1
MoreAttempts(attempt) == attempt + 1 < maxRetries

\* if lastErr == nil { return size, nil }
SuccessUnlessRetried(call) ==
    IF call.removals > 1 THEN Returned(call, 0, "failed to delete")
    ELSE Returned(call, call.size, "nil")
SuccessReturn(call) == Returned(call, call.size, "nil")

\* return 0, fmt.Errorf("failed to delete %s after %d attempts: %w", path,
\* maxRetries, lastErr): the count the message states, the error it wraps
StartOver(call) ==
    [call EXCEPT !.pc = "remove", !.attempt = 0, !.removals = 0,
                 !.chmods = 0, !.slept = <<>>]
GiveUp(call) ==
    [Returned(call, 0, "failed to delete") EXCEPT !.stated = maxRetries,
                                                  !.wraps = call.lastErr]

\* one pass of the retry loop, from the removal to the next sleep or the return
SafeDeleteRemove(outcome, chmodOk) ==
    /\ sd.pc = "remove"
    /\ \E gone \in SUBSET (IF sd.isDir /\ outcome # "ok"
                           THEN Below(sd.path) ELSE {}) :
       LET removed == AfterRemove(sd.path, outcome, gone)
           tried == [sd EXCEPT !.removals = @ + 1, !.lastErr = outcome]
           again(call) ==
               IF MoreAttempts(sd.attempt)
               THEN [call EXCEPT !.pc = "sleep", !.attempt = @ + 1]
               ELSE GiveUp([call EXCEPT !.attempt = @ + 1])
       IN  IF outcome = "ok"
           THEN /\ fs' = removed
                /\ sd' = SuccessReturn([tried EXCEPT !.lastErr = "nil"])
           ELSE IF isRetryableError(outcome)
           THEN /\ fs' = removed
                /\ sd' = again(tried)
           ELSE IF isAccessDenied(outcome) /\ ~sd.isDir
           THEN /\ fs' = AfterChmod(removed, sd.path, chmodOk)
                /\ sd' = again([tried EXCEPT !.chmods = @ + 1])
           ELSE /\ fs' = removed
                /\ sd' = GiveUp(tried)
    /\ UNCHANGED <<patterns, file, last, chain, cd, lockVars, sliceVars>>

(***************************************************************************)
(* SafeCleanDir: the deletion of the matches of a glob pattern in a        *)
(* directory, one SafeDelete call per match.                               *)
(***************************************************************************)
\* the entries in the order os.ReadDir lists them (sorted by name)
FsListing == <<PWindows, NDSystem32, QParent, PFile, PDir, PDirChild, PKeep>>

\* filepath.Split: the index of the last separator of a path
LastSeparator(p) ==
    LET seps == {i \in 1..Len(p) : IsPathSeparator(p[i])}
    IN  IF seps = {} THEN 0 ELSE CHOOSE x \in seps : \A j \in seps : x >= j
DirPart(p) == SubSeq(p, 1, LastSeparator(p) - 1)
FilePart(p) == SubSeq(p, LastSeparator(p) + 1, Len(p))

\* filepath.Join(dir, pattern)
Join(dir, name) == Clean(dir \o <<Sep>> \o name)

hasMeta(p) == ContainsAny(p, GlobChars)

\* filepath.ErrBadPattern: a character class that is not closed
BadPattern(p) ==
    \E i \in 1..Len(p) : p[i] = "[" /\ ClassEnd(p, i) = 0

\* filepath.Glob of a pattern whose directory part has no metacharacter: the
\* path itself when it has none either, else the entries of the directory
\* whose names match the last element, in the order of the listing
Glob(globPattern) ==
    IF ~hasMeta(globPattern)
    THEN IF Lstat(globPattern).kind # "none" THEN <<globPattern>> ELSE <<>>
    ELSE LET dir == DirPart(globPattern)
             matching ==
                 SelectSeq(FsListing,
                           LAMBDA f : /\ fs[f].kind # "none"
                                      /\ EqualFold(DirPart(f), dir)
                                      /\ Match(FilePart(globPattern), FilePart(f)))
         IN  [i \in 1..Len(matching) |-> Join(dir, FilePart(matching[i]))]

NoClean ==
    [pc |-> "idle", calls |-> 0, dir |-> <<>>, pattern |-> <<>>,
     dryRun |-> FALSE,
     globbed |-> FALSE, matches |-> <<>>, i |-> 0, totalBytes |-> 0,
     totalFiles |-> 0, err |-> "nil", results |-> <<>>]

CleanReturned(call, err) ==
    [call EXCEPT !.pc = "done", !.err = err,
                 !.totalBytes = IF err = "nil" THEN @ ELSE 0,
                 !.totalFiles = IF err = "nil" THEN @ ELSE 0]

\* SafeCleanDir up to its loop: validation of the directory, os.Stat, the glob
SafeCleanDir(dir, pattern, dryRun, statOk) ==
    /\ cd.pc \in {"idle", "done"}
    /\ sd.pc \in {"idle", "done"}
    /\ cd.calls < MaxCleanCalls
    /\ LET verr == ValidatePath(patterns, dir)
           info == Lstat(dir)
           globPattern == Join(dir, pattern)
           call == [NoClean EXCEPT !.calls = cd.calls + 1, !.dir = dir,
                                   !.pattern = pattern, !.dryRun = dryRun]
       IN  cd' = IF verr # "ok"
                 THEN CleanReturned(call, "safety check failed")
                 ELSE IF info.kind = "none"
                 THEN CleanReturned(call, "nil")
                 ELSE IF ~statOk
                 THEN CleanReturned(call, "cannot stat directory")
                 ELSE IF info.kind # "dir"
                 THEN CleanReturned(call, "not a directory")
                 ELSE IF BadPattern(globPattern)
                 THEN CleanReturned(call, "invalid glob pattern")
                 ELSE [call EXCEPT !.pc = "loop", !.globbed = TRUE,
                                   !.matches = Glob(globPattern), !.i = 1]
    /\ UNCHANGED <<patterns, file, last, chain, fs, sd, lockVars, sliceVars>>

\* the head of the loop: SafeDelete(match, dryRun) for the next match, or the
\* return of the totals after the last one
SafeCleanDirNext(statOk) ==
    /\ cd.pc = "loop"
    /\ IF cd.i > Len(cd.matches)
       THEN /\ cd' = CleanReturned(cd, "nil")
            /\ sd' = sd
       ELSE /\ cd' = [cd EXCEPT !.pc = "wait"]
            /\ sd' = SafeDeleteEntry(cd.matches[cd.i], cd.dryRun, statOk)
    /\ UNCHANGED <<patterns, file, last, chain, fs, lockVars, sliceVars>>

\* if delErr != nil { continue }
StopAtFailed(call) == CleanReturned(call, "failed to delete")
SkipFailed(call) == [call EXCEPT !.pc = "loop", !.i = @ + 1]

\* the rest of the loop body, once the SafeDelete of the match has returned
SafeCleanDirCollect ==
    /\ cd.pc = "wait"
    /\ sd.pc = "done"
    /\ LET noted == [cd EXCEPT !.results =
                                  Append(@, [err |-> sd.err, bytes |-> sd.bytes])]
       IN  cd' = IF sd.err # "nil"
                 THEN SkipFailed(noted)
                 ELSE [noted EXCEPT !.pc = "loop", !.i = @ + 1,
                                    !.totalBytes = @ + sd.bytes,
                                    !.totalFiles = @ + 1]
    /\ UNCHANGED <<patterns, file, last, chain, fs, sd, lockVars, sliceVars>>

(***************************************************************************)
(* The whitelist store on its own.                                         *)
(***************************************************************************)
NoCall == [n |-> 0, op |-> "none", arg |-> <<>>, io |-> "ok", err |-> "nil",
           hit |-> FALSE, list |-> <<>>]

Init ==
    /\ patterns = <<>>
    /\ file \in InitialFiles
    /\ last = NoCall
    /\ chain = NoChain
    /\ fs = InitialFs
    /\ sd = Idle
    /\ cd = NoClean
    /\ mu = Unlocked
    /\ calls = [t \in Callers |-> NoOp]
    /\ heap = [a \in Arrays |-> <<>>]
    /\ slice = NilSlice
    /\ listed = NoneListed

Next ==
    \/ \E io \in IOOutcomes : Load(io)
    \/ \E io \in IOOutcomes : Save(io)
    \/ \E p \in AddInputs : Add(p)
    \/ \E p \in AddInputs : Remove(p)
    \/ \E q \in QueryPaths : IsWhitelisted(q)
    \/ List

Spec == Init /\ [][Next]_vars

(***************************************************************************)
(* The deletion engine over a whitelist that does not change.              *)
(***************************************************************************)
PSystem32Mixed ==
    <<"c", ":", "\\", "W", "I", "N", "D", "O", "W", "S", "\\", ".", "\\",
      "s", "y", "s", "t", "e", "m", "3", "2", "\\">>
PDrivers ==
    <<"C", ":", "\\", "W", "i", "n", "d", "o", "w", "s", "\\", "S", "y",
      "s", "t", "e", "m", "3", "2", "\\", "d", "r", "i", "v", "e", "r", "s">>
PSystem32x ==
    <<"C", ":", "\\", "W", "i", "n", "d", "o", "w", "s", "\\", "S", "y",
      "s", "t", "e", "m", "3", "2", "x">>
PDirDotDot ==
    <<"C", ":", "\\", "u", "\\", "t", "\\", "d", "\\", ".", ".", "\\", "a">>

DeletePaths ==
    FsPaths \cup {PSystem32Mixed, PDrivers, PSystem32x, PDirDotDot, QOther}

LoadedLists == {<<>>, <<PKeep>>}

InitDel ==
    /\ patterns \in LoadedLists
    /\ file = NoFile
    /\ last = NoCall
    /\ chain = NoChain
    /\ fs = InitialFs
    /\ sd = Idle
    /\ cd = NoClean
    /\ mu = Unlocked
    /\ calls = [t \in Callers |-> NoOp]
    /\ heap = [a \in Arrays |-> <<>>]
    /\ slice = NilSlice
    /\ listed = NoneListed

NextDel ==
    \/ \E path \in DeletePaths, dryRun \in BOOLEAN, statOk \in BOOLEAN :
          SafeDeleteCall(path, dryRun, statOk)
    \/ SafeDeleteSleep
    \/ \E outcome \in RemoveOutcomes, chmodOk \in BOOLEAN :
          SafeDeleteRemove(outcome, chmodOk)

SpecDel == InitDel /\ [][NextDel]_vars

\* deletions of a file and of a directory, with the calls SafeDelete makes
\* returning: time.Sleep ends after its duration, os.Remove, os.RemoveAll and
\* os.Chmod return
LivePaths == {PFile, PDir, PKeep}

NextLive ==
    \/ \E path \in LivePaths, dryRun \in BOOLEAN :
          SafeDeleteCall(path, dryRun, TRUE)
    \/ SafeDeleteSleep
    \/ \E outcome \in RemoveOutcomes, chmodOk \in BOOLEAN :
          SafeDeleteRemove(outcome, chmodOk)

\* SafeDeleteRemove is enabled exactly when sd.pc = "remove" and every step of
\* it is followed by a sleep or a return before the next removal, so its weak
\* fairness is that the call is not at a removal for ever
SpecDelLive ==
    /\ InitDel /\ [][NextLive]_vars
    /\ WF_vars(SafeDeleteSleep)
    /\ []<>(sd.pc # "remove")

(***************************************************************************)
(* The whitelist store under the patterns its tests expect Add to reject.  *)
(***************************************************************************)
\* TestWhitelist_AddRejectsBroadPatterns, TestWhitelist_AddRejectsShallowPatterns
\* and TestValidatePattern_RejectsDangerous
BStar == <<"*">>
BStarStar == <<"*", "*">>
BDrive ==
    <<"C", ":">>
BRoot ==
    <<"C", ":", "\\">>
BRootSlash ==
    <<"C", ":", "/">>
BRootStar ==
    <<"C", ":", "\\", "*">>
BRootSlashStar ==
    <<"C", ":", "/", "*">>
BRootStarD ==
    <<"D", ":", "\\", "*">>
BUsers ==
    <<"C", ":", "\\", "U", "s", "e", "r", "s">>
BGames ==
    <<"D", ":", "\\", "G", "a", "m", "e", "s">>

BroadInputs ==
    {BStar, BStarStar, BDrive, BRoot, BRootSlash, BRootStar, BRootSlashStar,
     BRootStarD, BUsers, BGames}

NextBroad ==
    \/ \E p \in BroadInputs \cup {PKeep} : Add(p)
    \/ \E p \in BroadInputs \cup {PKeep} : Remove(p)

SpecBroad == Init /\ [][NextBroad]_vars

(***************************************************************************)
(* SafeCleanDir over a whitelist that does not change.                     *)
(***************************************************************************)
GStar == <<"*">>
GClass == <<"[", "a", "k", "]">>
GName == <<"K">>
GOpen == <<"[">>
\* patterns that leave the directory: ..\* and d\*
GUp == <<".", ".", "\\", "*">>
GDeep == <<"d", "\\", "*">>
GlobPatterns == {GStar, GClass, GName, GOpen, GUp, GDeep}

CleanDirs == {QParent, PDir, PFile, PWindows, QOther}

NextClean ==
    \/ \E dir \in CleanDirs, pattern \in GlobPatterns,
          dryRun \in BOOLEAN, statOk \in BOOLEAN :
          SafeCleanDir(dir, pattern, dryRun, statOk)
    \/ \E statOk \in BOOLEAN : SafeCleanDirNext(statOk)
    \/ SafeDeleteSleep
    \/ \E outcome \in RemoveOutcomes, chmodOk \in BOOLEAN :
          SafeDeleteRemove(outcome, chmodOk)
    \/ SafeCleanDirCollect

SpecClean == InitDel /\ [][NextClean]_vars

(***************************************************************************)
(* One whitelist called by concurrent callers.                             *)
(***************************************************************************)
LockedOps == {"Add", "Remove", "Save", "IsWhitelisted", "List"}
LockedArgs == {PKeep, PKeepPadded, PEmpty}

NextLock ==
    \/ \E t \in Callers, op \in {"Add", "Remove", "IsWhitelisted"},
          arg \in LockedArgs : Enter(t, op, arg)
    \/ \E t \in Callers, op \in {"Save", "List"} : Enter(t, op, <<>>)
    \/ \E t \in Callers : Acquire(t)
    \/ \E t \in Callers, io \in {"ok", "fail"} : Finish(t, io)

SpecLock == Init /\ [][NextLock]_vars

(***************************************************************************)
(* The store and a caller that keeps, and writes to, what List returned.   *)
(***************************************************************************)
PWritten == <<"w">>

NextSlices ==
    \/ \E p \in {PKeep, PKeepPadded, PHash} : AddSlice(p)
    \/ \E p \in {PKeep, PKeepPadded, PHash} : RemoveSlice(p)
    \/ ListSlice
    \/ \E j \in 1..MaxPatterns : CallerWrites(j, PWritten)

SpecSlices == Init /\ [][NextSlices]_vars

(***************************************************************************)
(* IsWhitelisted over a whitelist of one pattern.                          *)
(***************************************************************************)
\* the directory of PKeep written loosely: c:/U/t/./K/
PKeepLoose ==
    <<"c", ":", "/", "U", "/", "t", "/", ".", "/", "K", "/">>
\* C:\u\t\*, as the ...\Local\* of TestWhitelist_IsWhitelistedGlob
PLocalStar ==
    <<"C", ":", "\\", "u", "\\", "t", "\\", "*">>
\* the same directory through the environment: $v\t\*
PDollarStar ==
    <<"$", "v", "\\", "t", "\\", "*">>

\* the same directory in the form of the defaults: %v%\t\*
PPercentStar ==
    <<"%", "v", "%", "\\", "t", "\\", "*">>

MatchPatterns ==
    {PKeep, PKeepLoose, PDollar, BRoot, PLocalStar, PDollarStar, BRootStar,
     PPercentStar}

\* C:\u\t\k2, the sibling of TestWhitelist_IsWhitelisted
QKeep2 ==
    <<"C", ":", "\\", "u", "\\", "t", "\\", "k", "2">>
QKeepDeep ==
    <<"C", ":", "\\", "U", "\\", "t", "\\", "k", "\\", "s", "\\", "x">>
QTop ==
    <<"C", ":", "\\", "u">>
\* C:\u\t\k2\..\K\ : the directory of PKeep, not normalised
QKeepDots ==
    <<"C", ":", "\\", "u", "\\", "t", "\\", "k", "2", "\\", ".", ".", "\\",
      "K", "\\">>

MatchQueries ==
    {PKeep, QKeepUpper, QKeepSub, QKeepDeep, QKeep2, QOther, QParent, QTop,
     BRoot, QKeepDots}

InitMatch ==
    /\ patterns \in {<<d>> : d \in MatchPatterns}
    /\ file = NoFile
    /\ last = NoCall
    /\ chain = NoChain
    /\ fs = InitialFs
    /\ sd = Idle
    /\ cd = NoClean
    /\ mu = Unlocked
    /\ calls = [t \in Callers |-> NoOp]
    /\ heap = [a \in Arrays |-> <<>>]
    /\ slice = NilSlice
    /\ listed = NoneListed

NextMatch == \E q \in MatchQueries : IsWhitelisted(q)

SpecMatch == InitMatch /\ [][NextMatch]_vars

(***************************************************************************)
(* Properties.                                                             *)
(***************************************************************************)
\* a step that is a call of the whitelist operation op
Called(op) == last'.n # last.n /\ last'.op = op

\* a step in which a SafeDelete call starts
Starts == sd.pc \in {"idle", "done"} /\ sd' # sd

\* the elements of a path after normalisation, letter case set aside
ElemsOf(path) ==
    SelectSeq(SplitElems(ToLower(Clean(path))), LAMBDA e : e # <<>>)

IsPrefixSeq(a, b) == Len(a) <= Len(b) /\ SubSeq(b, 1, Len(a)) = a

\* equal to a never-delete entry, an ancestor of one or a descendant of one
Protected(path) ==
    \E i \in 1..Len(NeverDeletePaths) :
        \/ IsPrefixSeq(ElemsOf(path), ElemsOf(NeverDeletePaths[i]))
        \/ IsPrefixSeq(ElemsOf(NeverDeletePaths[i]), ElemsOf(path))

\* C1: a SafeDelete call whose path the validator rejects returns 0 bytes and
\* an error, dry run or not, having removed nothing, changed no permission
\* and slept not at all.
C1_RejectedPathFailsUntouched ==
    [][(sd' # sd /\ sd'.verr # "ok") =>
          /\ sd'.pc = "done"
          /\ sd'.bytes = 0
          /\ sd'.err # "nil"
          /\ sd'.removals = 0 /\ sd'.chmods = 0 /\ sd'.slept = <<>>
          /\ fs' = fs]_vars

C1_Witness ==
    /\ sd.pc = "done" /\ ~sd.dryRun
    /\ sd.path = PWindows /\ sd.verr = "never delete"
    /\ sd.err = "safety check failed"

\* the size of the entry at path: a file's own size, a directory's files
SizeAt(path) ==
    LET at == {f \in FsPaths : ElemsOf(f) = ElemsOf(path)}
        under == {f \in FsPaths : /\ IsPrefixSeq(ElemsOf(path), ElemsOf(f))
                                  /\ ElemsOf(f) # ElemsOf(path)
                                  /\ fs[f].kind = "file"}
    IN  IF \E f \in at : fs[f].kind = "file"
        THEN fs[CHOOSE f \in at : TRUE].size
        ELSE SumSizes(under)

ExistsAt(path) ==
    \E f \in FsPaths : ElemsOf(f) = ElemsOf(path) /\ fs[f].kind # "none"

\* C2: a dry-run SafeDelete returns at once and leaves the filesystem as it
\* was - no removal, no permission change, no sleep; for a path that passes
\* validation and that Lstat finds, it returns the size and a nil error.
C2_DryRunChangesNothing ==
    [][(Starts /\ sd'.dryRun) =>
          /\ sd'.pc = "done"
          /\ fs' = fs
          /\ sd'.removals = 0 /\ sd'.chmods = 0 /\ sd'.slept = <<>>
          /\ (sd'.verr = "ok" /\ ExistsAt(sd'.path) /\ sd'.err # "cannot stat")
                => (sd'.err = "nil" /\ sd'.bytes = SizeAt(sd'.path))]_vars

C2_Witness ==
    /\ sd.pc = "done" /\ sd.dryRun /\ sd.verr = "ok"
    /\ sd.path = PDir /\ sd.bytes = 3 /\ sd.err = "nil"
    /\ fs[PDirChild].kind = "file"

BelowRoot(p) ==
    SelectSeq(SplitElems(SubSeq(p, VolumeNameLen(p) + 1, Len(p))),
              LAMBDA e : e # <<>>)
IsBareWildcard(p) == p # <<>> /\ \A i \in 1..Len(p) : p[i] = "*"
IsVolumeRoot(p) == VolumeNameLen(p) = 2 /\ BelowRoot(p) = <<>>
IsRootWildcard(p) == VolumeNameLen(p) = 2 /\ BelowRoot(p) = << <<"*">> >>
IsShallow(p) == VolumeNameLen(p) = 2 /\ Len(BelowRoot(p)) < 2
TooBroad(p) ==
    IsBareWildcard(p) \/ IsVolumeRoot(p) \/ IsRootWildcard(p) \/ IsShallow(p)

\* C4: Add of a bare wildcard, a volume root, a volume root plus wildcard or
\* a pattern with fewer than two segments below the root returns an error
\* and leaves the list as it was.
C4_BroadPatternRejected ==
    [][(Called("Add") /\ TooBroad(TrimSpace(last'.arg))) =>
          (last'.err # "nil" /\ patterns' = patterns)]_vars

\* C5: Add fails, and leaves the list as it was, when the list holds a
\* pattern equal to the trimmed argument ignoring case; so an Add that
\* follows a successful Add of the same pattern in any casing fails.
C5_DuplicateAddFails ==
    [][Called("Add") =>
          /\ (\E i \in 1..Len(patterns) :
                 SameIgnoringCase(patterns[i], TrimSpace(last'.arg)))
                => (last'.err = "exists" /\ patterns' = patterns)
          /\ (/\ last.op = "Add" /\ last.err = "nil"
              /\ SameIgnoringCase(TrimSpace(last.arg), TrimSpace(last'.arg)))
                => last'.err = "exists"]_vars

C5_Witness ==
    /\ last.op = "Add" /\ last.arg = PKeepPadded /\ last.err = "exists"
    /\ patterns = <<PHash, PKeep>>

\* C6: after a successful Add(p), a Remove of p in any casing and with any
\* white space around it succeeds and gives back the list as it was before
\* the Add; the Remove after that fails with "not found" and changes nothing.
C6_RemoveUndoesAddOnce ==
    [][Called("Remove") =>
          /\ (chain.stage = 1 /\ chain'.stage = 2)
                => (last'.err = "nil" /\ patterns' = chain.before)
          /\ (chain.stage = 2 /\ chain'.stage = 3)
                => (last'.err = "not found" /\ patterns' = patterns)]_vars

C6_Witness ==
    /\ chain.stage = 3 /\ chain.pat = PKeep /\ chain.before = <<PHash>>
    /\ last.op = "Remove" /\ last.arg = PKeepPadded /\ last.err = "not found"
    /\ patterns = <<PHash>>

\* C7: no two stored patterns are equal ignoring case.
C7_NoCaseDuplicates ==
    \A i, j \in 1..Len(patterns) :
        i # j => ~SameIgnoringCase(patterns[i], patterns[j])

\* C8: a Load that follows a successful Save gives the list that was saved,
\* in the same order and letter case.
C8_SaveLoadRoundTrip ==
    [][(Called("Load") /\ last'.err = "nil" /\ last.op = "Save"
            /\ last.err = "nil")
          => (patterns' = patterns /\ last'.list = patterns)]_vars

\* C9 as stated: Load with no file at the path returns a nil error and the
\* defaults, and leaves a file holding exactly the defaults.
C9_LoadOfNoFileSucceeds ==
    [][(Called("Load") /\ ~file.exists) =>
          /\ last'.err = "nil"
          /\ last'.list = defaultPatterns
          /\ file'.exists /\ ParseFile(file'.data) = defaultPatterns]_vars

\* C9 amended: Load with no file at the path, when the defaults can be
\* written there, returns a nil error and the non-empty defaults and leaves a
\* file holding exactly them, so that the next Load returns the same list;
\* when the file cannot be written Load returns the error of the save.
C9_LoadOfNoFileSeedsDefaults ==
    [][Called("Load") =>
          /\ (~file.exists /\ last'.io = "ok") =>
                /\ last'.err = "nil"
                /\ last'.list = defaultPatterns /\ patterns' = defaultPatterns
                /\ defaultPatterns # <<>>
                /\ file'.exists /\ ParseFile(file'.data) = defaultPatterns
          /\ (~file.exists /\ last'.io # "ok") =>
                (last'.err = "cannot save" /\ patterns' = patterns)
          /\ (last.op = "Load" /\ last.err = "nil" /\ last'.err = "nil")
                => last'.list = last.list]_vars

C9_Witness ==
    /\ last.op = "Load" /\ last.err = "nil" /\ last.list = defaultPatterns
    /\ patterns = defaultPatterns
    /\ file = FileOf(Serialize(defaultPatterns))

\* C10 as stated: a query path that differs from a stored pattern only in
\* letter case is whitelisted.
C10_CaseVariantWhitelisted ==
    (last.op = "IsWhitelisted"
        /\ \E i \in 1..Len(patterns) : SameIgnoringCase(patterns[i], last.arg))
      => last.hit

\* C10 amended: a query path that differs only in letter case from a stored
\* pattern without '$' is whitelisted.
C10_CaseVariantOfPlainPatternWhitelisted ==
    (last.op = "IsWhitelisted"
        /\ \E i \in 1..Len(patterns) :
              /\ SameIgnoringCase(patterns[i], last.arg)
              /\ ~ContainsAny(patterns[i], {"$"}))
      => last.hit

C10_Witness ==
    /\ last.op = "IsWhitelisted" /\ last.arg = QKeepUpper /\ last.hit
    /\ patterns = <<PKeep>>

\* the directory a pattern names: its text after environment expansion
DirOf(pattern) == ExpandEnv(pattern)

\* the normalised pattern is a volume root: it ends in a separator
NamesVolumeRoot(pattern) ==
    LET expanded == Clean(DirOf(pattern))
    IN  expanded[Len(expanded)] = Sep

StarParent(pattern) ==
    LET elems == ElemsOf(DirOf(pattern))
    IN  IF /\ Len(elems) >= 2
           /\ elems[Len(elems)] = <<"*">>
           /\ \A i \in 1..(Len(elems) - 1) : ~ContainsAny(elems[i], GlobChars)
        THEN SubSeq(elems, 1, Len(elems) - 1)
        ELSE <<>>

\* C12: with one stored pattern d\*, every immediate child of d is
\* whitelisted and no path two or more levels under d is.
C12_TrailingStarCoversChildrenOnly ==
    (last.op = "IsWhitelisted" /\ Len(patterns) = 1
        /\ StarParent(patterns[1]) # <<>>
        /\ IsPrefixSeq(StarParent(patterns[1]), ElemsOf(last.arg)))
      => /\ Len(ElemsOf(last.arg)) = Len(StarParent(patterns[1])) + 1
            => last.hit
         /\ Len(ElemsOf(last.arg)) > Len(StarParent(patterns[1])) + 1
            => ~last.hit

C12_Witness ==
    /\ patterns = <<PLocalStar>>
    /\ last.op = "IsWhitelisted" /\ last.arg = QKeepSub /\ ~last.hit

\* C13: a SafeDelete of a path that passes validation and does not exist
\* returns (0, nil) with no removal, no sleep and no change of the
\* filesystem; so does a SafeDelete(path, false) that follows a successful
\* deletion of the same path.
C13_AbsentPathIsNoError ==
    [][Starts =>
          /\ (sd'.verr = "ok" /\ ~ExistsAt(sd'.path)) =>
                /\ sd'.pc = "done"
                /\ sd'.bytes = 0 /\ sd'.err = "nil"
                /\ sd'.removals = 0 /\ sd'.chmods = 0 /\ sd'.slept = <<>>
                /\ fs' = fs
          /\ (/\ sd.pc = "done" /\ ~sd.dryRun /\ sd.removals > 0
              /\ sd.err = "nil" /\ sd'.path = sd.path /\ ~sd'.dryRun) =>
                /\ sd'.pc = "done"
                /\ sd'.bytes = 0 /\ sd'.err = "nil" /\ sd'.removals = 0]_vars

C13_Witness ==
    /\ sd.pc = "done" /\ sd.path = PFile /\ ~sd.dryRun /\ sd.verr = "ok"
    /\ sd.bytes = 0 /\ sd.err = "nil" /\ sd.removals = 0
    /\ fs[PFile].kind = "none"

RECURSIVE SumFreed(_)
SumFreed(results) ==
    IF results = <<>> THEN 0
    ELSE (IF Head(results).err = "nil" THEN Head(results).bytes ELSE 0)
         + SumFreed(Tail(results))

\* C14: a SafeCleanDir that reached its loop returns a nil error after a
\* SafeDelete call for every match, whatever calls failed; totalFiles is the
\* number of calls that succeeded and totalBytes the sum of what they
\* returned, and (outside a dry run) the matches of those calls are gone.
C14_FailedMatchDoesNotStopBatch ==
    (cd.pc = "done" /\ cd.globbed) =>
        /\ cd.err = "nil"
        /\ Len(cd.results) = Len(cd.matches)
        /\ cd.totalFiles =
              Cardinality({i \in 1..Len(cd.results) : cd.results[i].err = "nil"})
        /\ cd.totalBytes = SumFreed(cd.results)
        /\ ~cd.dryRun =>
              \A i \in 1..Len(cd.results) :
                  cd.results[i].err = "nil" => ~ExistsAt(cd.matches[i])

C14_Witness ==
    /\ cd.pc = "done" /\ cd.dir = QParent /\ cd.pattern = GStar /\ ~cd.dryRun
    /\ Len(cd.matches) = 3
    /\ cd.results[3].err = "failed to delete" /\ sd.lastErr = "lock"
    /\ cd.totalFiles = 2 /\ cd.totalBytes = 8 /\ cd.err = "nil"
    /\ fs[PFile].kind = "none" /\ fs[PDir].kind = "none"
    /\ fs[PKeep].kind = "file"

\* the whitelist methods that are running under the lock
Running == {t \in Callers : calls[t].pc = "in"}
IsRead(op) == op \in {"List", "IsWhitelisted"}

\* C15: two calls of one Whitelist overlap only when both are List or
\* IsWhitelisted; an Add, a Remove or a Save overlaps with no other call,
\* another Save included.
C15_WritersAndSaveExclusive ==
    \A t, u \in Running :
        t # u => (IsRead(calls[t].op) /\ IsRead(calls[u].op))

\* a step that is one removal attempt of the SafeDelete call in progress
Attempts == sd.pc = "remove" /\ sd' # sd

\* C16: a SafeDelete call makes at most 3 removal attempts.
C16_AtMostThreeAttempts == sd.removals <= 3

C16_Witness ==
    /\ sd.pc = "done" /\ sd.removals = 3 /\ sd.err = "failed to delete"
    /\ sd.lastErr = "sharing" /\ sd.slept = <<500, 1000>>

\* C18: a SafeDelete call changes the permissions of the path at most once.
C18_PermissionClearedAtMostOnce == sd.chmods <= 1

\* C19: after a removal that fails with access-denied on a directory, or
\* with an error that is neither a transient lock nor access-denied, the call
\* returns the failure at once - no further attempt, sleep or permission
\* change; after one that fails with a sharing or lock violation it changes
\* no permission and, while attempts remain, goes on to the next attempt.
C19_ErrorClassDecidesRetry ==
    [][Attempts =>
          /\ (\/ sd'.lastErr = "other"
              \/ sd'.lastErr = "denied" /\ sd.isDir) =>
                /\ sd'.pc = "done"
                /\ sd'.err = "failed to delete" /\ sd'.bytes = 0
                /\ sd'.chmods = sd.chmods /\ sd'.slept = sd.slept
          /\ sd'.lastErr \in {"sharing", "lock"} =>
                /\ sd'.chmods = sd.chmods
                /\ \A f \in FsPaths : fs'[f].ro = fs[f].ro \/ fs'[f].kind = "none"
                /\ IF sd'.removals < 3 THEN sd'.pc = "sleep"
                   ELSE sd'.pc = "done" /\ sd'.err = "failed to delete"]_vars

C19_Witness ==
    /\ sd.pc = "done" /\ sd.path = PDir /\ sd.isDir /\ sd.lastErr = "denied"
    /\ sd.removals = 2 /\ sd.chmods = 0 /\ sd.slept = <<500>>
    /\ sd.err = "failed to delete"

\* C20: a removal that succeeds, at the first attempt or after failed ones,
\* ends the call with (size, nil) and no further attempt or sleep, size being
\* the size found when the call started.
C20_SuccessAtAnyAttempt ==
    [][/\ (Starts /\ sd'.pc = "remove") => sd'.size = SizeAt(sd'.path)
       /\ (sd.pc \in {"remove", "sleep"} /\ sd' # sd) => sd'.size = sd.size
       /\ (Attempts /\ sd'.lastErr = "nil") =>
             /\ sd'.pc = "done"
             /\ sd'.err = "nil" /\ sd'.bytes = sd.size
             /\ sd'.removals = sd.removals + 1 /\ sd'.removals \in 1..3
             /\ sd'.slept = sd.slept
             /\ \A f \in FsPaths :
                   ElemsOf(f) = ElemsOf(sd.path) => fs'[f].kind = "none"]_vars

C20_Witness ==
    /\ sd.pc = "done" /\ sd.path = PFile /\ sd.removals = 3 /\ sd.chmods = 1
    /\ sd.err = "nil" /\ sd.bytes = 5 /\ sd.slept = <<500, 1000>>
    /\ fs[PFile].kind = "none"

\* C17: the patterns of the store are what Add and Remove made of them, in
\* the order of insertion, whatever a caller wrote to a sequence List
\* returned; and a sequence List returned holds the patterns of the store at
\* the time of the call, in their order, changed only by the caller's own
\* writes, whatever Add and Remove did to the store since.
C17_ListIsDefensiveCopy ==
    /\ View(heap, slice) = patterns
    /\ View(heap, listed) = listed.val

C17_Witness ==
    /\ listed.val = <<PWritten, PHash>>
    /\ patterns = <<PHash, PKeep>>
    /\ listed.arr # "nil" /\ listed.arr # slice.arr

\* C21: a SafeDelete call that gave up returns 0 bytes and an error that
\* wraps the error of its last removal attempt and states the number of
\* removal attempts the call made.
C21_FailureStatesAttemptsMade ==
    (sd.pc = "done" /\ sd.err = "failed to delete") =>
        /\ sd.bytes = 0
        /\ sd.wraps = sd.lastErr /\ sd.wraps # "nil"
        /\ sd.stated = sd.removals

\* the sleeps that precede attempt n of a call: 500 ms, 1000 ms, ...
SleepsBefore(n) == [k \in 1..(n - 1) |-> 500 * 2^(k - 1)]

\* C22: the first removal attempt of a call follows no sleep, attempt n >= 2
\* follows the sleeps 500 * 2^(k-2) ms for k = 2..n, one each, and a call
\* that returned has slept only before the attempts it made.
C22_BackoffBeforeEachRetry ==
    [][/\ Attempts => sd.slept = SleepsBefore(sd.removals + 1)
       /\ (Attempts /\ sd'.pc = "done") =>
             (sd'.slept = sd.slept /\ sd'.slept = SleepsBefore(sd'.removals))
       /\ Starts => sd'.slept = <<>>
       /\ (sd.pc = "done" /\ sd' # sd) => Starts]_vars

C22_Witness ==
    /\ sd.pc = "remove" /\ sd.removals = 2 /\ sd.slept = <<500, 1000>>
    /\ sd.lastErr = "lock"

\* C23: every SafeDelete call that entered its retry loop returns.
C23_CallReturns == (sd.pc \in {"remove", "sleep"}) ~> (sd.pc = "done")

C23_Witness ==
    /\ sd.pc = "done" /\ sd.path = PFile /\ sd.err = "failed to delete"
    /\ sd.removals = 3 /\ sd.chmods = 3 /\ sd.lastErr = "denied"
    /\ fs[PFile].kind = "file"

\* C24: Add reports the earliest violated rule in the order emptiness,
\* broadness, shallowness, duplication: a blank pattern fails as empty, and a
\* too broad or too shallow pattern that the list already holds fails as too
\* broad or too shallow, not as a duplicate.
C24_EarliestRuleReported ==
    [][Called("Add") =>
          LET p == TrimSpace(last'.arg)
              held == \E i \in 1..Len(patterns) : SameIgnoringCase(patterns[i], p)
          IN  /\ p = <<>> => last'.err = "empty"
              /\ (p # <<>> /\ held /\ TooBroad(p)) =>
                    last'.err = (IF IsShallow(p) /\ ~IsVolumeRoot(p)
                                      /\ ~IsRootWildcard(p)
                                 THEN "too shallow" ELSE "too broad")]_vars

\* the text of a pattern with its %NAME% references replaced by the values
\* of the variables
RECURSIVE ExpandPercent(_)
ExpandPercent(s) ==
    IF s = <<>> THEN <<>>
    ELSE LET ends == {i \in 3..Len(s) : s[i] = "%"}
         IN  IF Head(s) = "%" /\ ends # {}
             THEN LET e == CHOOSE x \in ends : \A j \in ends : x <= j
                  IN  Getenv(SubSeq(s, 2, e - 1))
                         \o ExpandPercent(SubSeq(s, e + 1, Len(s)))
             ELSE <<Head(s)>> \o ExpandPercent(Tail(s))

\* C25: with one stored pattern that refers to a variable as %NAME% and ends
\* in \*, every immediate child of the directory the pattern names, with the
\* value of the variable in place of the reference, is whitelisted; the
\* stored pattern keeps the reference.
C25_PercentReferenceExpanded ==
    (last.op = "IsWhitelisted" /\ Len(patterns) = 1
        /\ ContainsAny(patterns[1], {"%"}))
      => LET elems == ElemsOf(ExpandPercent(ExpandEnv(patterns[1])))
             asked == ElemsOf(last.arg)
         IN  (/\ elems[Len(elems)] = <<"*">>
              /\ Len(asked) = Len(elems)
              /\ IsPrefixSeq(SubSeq(elems, 1, Len(elems) - 1), asked))
               => last.hit

\* C26: every path SafeCleanDir hands to SafeDelete is an immediate child of
\* the directory it was called with.
C26_MatchesAreChildrenOfDir ==
    cd.globbed =>
        \A i \in 1..Len(cd.matches) :
            /\ IsPrefixSeq(ElemsOf(cd.dir), ElemsOf(cd.matches[i]))
            /\ Len(ElemsOf(cd.matches[i])) = Len(ElemsOf(cd.dir)) + 1

\* C27: the error SafeCleanDir returns is nil unless the validation of the
\* directory failed or the glob pattern is malformed; a directory that is
\* missing, is a regular file or cannot be examined gives a nil error.
C27_OnlyValidationAndGlobErrors ==
    (cd.pc = "done" /\ cd.err # "nil") =>
        cd.err \in {"safety check failed", "invalid glob pattern"}

(***************************************************************************)
(* SafeDelete running while another goroutine adds patterns to the shared  *)
(* whitelist: Add takes the whitelist's lock only for its own body, and    *)
(* SafeDelete holds no lock between its validation and its removals, so a  *)
(* whole Add runs between any two steps of a call.                         *)
(***************************************************************************)
RacePaths == {PFile, PKeep}
RaceAdds == {PKeep, PDir}

NextRace ==
    \/ \E path \in RacePaths, dryRun \in BOOLEAN :
          SafeDeleteCall(path, dryRun, TRUE)
    \/ SafeDeleteSleep
    \/ \E outcome \in RemoveOutcomes, chmodOk \in BOOLEAN :
          SafeDeleteRemove(outcome, chmodOk)
    \/ \E p \in RaceAdds : Add(p)

SpecRace == InitDel /\ [][NextRace]_vars

\* C28: a removal by SafeDelete never succeeds on a path that the shared
\* whitelist covers at the moment of that removal, also when the pattern was
\* added after the call's validation.
C28_NoRemovalOfWhitelistedPath ==
    [][(Attempts /\ sd'.pc = "done" /\ sd'.err = "nil")
          => ~IsWhitelistedIn(patterns, sd.path)]_vars

====
